---- MODULE Spec2Model ----
(***************************************************************************)
(* NutsTrackerCard (src/components/Frame.tsx): the refresh loop that polls *)
(* the feed, the aggregation of sent/received markers, the overage count   *)
(* and the daily-allowance calculation.                                    *)
(*                                                                         *)
(* The component is modelled as one React instance: its props (fid) are    *)
(* inputs, its useState cells are the state, its effect owns the interval, *)
(* and every call of fetchNutsData is a cycle that suspends at its two     *)
(* awaits (fetch, response.json).                                          *)
(***************************************************************************)
EXTENDS Integers, Sequences, FiniteSets

\* ------------------------------------------------------------------ bounds
\* Calls of fetchNutsData the model follows.
MaxCycles == 2
\* Values Date.now() takes (0..MaxClock).
MaxClock == 1
\* Casts in a batch of the aggregation specification.
MaxCasts == 2

\* --------------------------------------------------------------- constants
msPerDay == 86400000
msPerHour == 3600000

\* The subjects a parent may pass as the fid prop.
Fids == {1, 2}
NoFid == 0
ErrMsg == "Failed to fetch nuts data"

\* The marker is U+1F95C, two UTF-16 code units in a JavaScript string.
NUT_HI == "D83E"
NUT_LO == "DD5C"
OTHER_LO == "DD5A"

\* DAILY_ALLOWANCE and RESET_HOUR_UTC are used by Frame.tsx and declared nowhere
\* in it: they are configuration values, fixed for a run and drawn here from the
\* values they may have. 30 is the allowance the card itself renders beside sent.
Allowances == {3, 30}
ResetHours == 0..23

VARIABLES
    \* configuration
    DAILY_ALLOWANCE,
    RESET_HOUR_UTC,
    \* NutsTrackerCard
    fid,            \* the fid prop of the current render
    mounted,        \* the instance is mounted
    nutsData,       \* useState: [sent, received, failedAttempts, lastUpdated]
    isLoading,      \* useState
    error,          \* useState
    effectFid,      \* the fid closed over by the effect that owns the live interval (NoFid: none)
    cycles,         \* every call of fetchNutsData so far, in call order
    lastApplied,    \* the call whose setNutsData updater ran last (0: none yet)
    clock,          \* Date.now()
    \* calculateDailyAllowance and the render of its result
    qNow,           \* new Date()
    qSent,          \* nutsData.sent at the render
    qOut,           \* what the render shows
    \* the aggregation loop on its own
    aggCasts,       \* data.casts
    aggFid,         \* fid
    aggOut          \* sentNuts / receivedNuts after the loop

trackerVars == <<fid, mounted, nutsData, isLoading, error, effectFid, cycles, lastApplied, clock>>
config == <<DAILY_ALLOWANCE, RESET_HOUR_UTC>>
quotaVars == <<qNow, qSent, qOut>>
aggVars == <<aggCasts, aggFid, aggOut>>
vars == <<DAILY_ALLOWANCE, RESET_HOUR_UTC, fid, mounted, nutsData, isLoading, error, effectFid, cycles,
          lastApplied, clock,
          qNow, qSent, qOut, aggCasts, aggFid, aggOut>>

NoResult == [none |-> TRUE]

\* ------------------------------------------------------------- aggregation
\* (cast.text.match(/🥜/g) || []).length: a global scan, left to right, that
\* resumes after each match.
RECURSIVE MatchFrom(_, _)
MatchFrom(text, i) ==
    IF i + 1 > Len(text) THEN 0
    ELSE IF text[i] = NUT_HI /\ text[i + 1] = NUT_LO
         THEN 1 + MatchFrom(text, i + 2)
         ELSE MatchFrom(text, i + 1)

MatchCount(text) == MatchFrom(text, 1)

\* The callback with the second test made an else branch of the first.
CountCast_ElseIf(cast, f, acc) ==
    IF cast.author = f
    THEN [sent |-> acc.sent + MatchCount(cast.text), received |-> acc.received]
    ELSE IF cast.parent = f
         THEN [sent |-> acc.sent, received |-> acc.received + MatchCount(cast.text)]
         ELSE acc

\* The body of the forEach callback: two independent ifs.
CountCast(cast, f, acc) ==
    LET s == IF cast.author = f THEN acc.sent + MatchCount(cast.text) ELSE acc.sent
        r == IF cast.parent = f THEN acc.received + MatchCount(cast.text) ELSE acc.received
    IN  [sent |-> s, received |-> r]

RECURSIVE ForEachCast(_, _, _, _)
ForEachCast(casts, f, i, acc) ==
    IF i > Len(casts) THEN acc
    ELSE ForEachCast(casts, f, i + 1, CountCast(casts[i], f, acc))

\* let sentNuts = 0; let receivedNuts = 0; data.casts.forEach(...)
AggregateCasts(casts, f) == ForEachCast(casts, f, 1, [sent |-> 0, received |-> 0])

\* ------------------------------------------------------------ the tracker
\* k markers in a row.
Nuts(k) == [i \in 1..(2 * k) |-> IF i % 2 = 1 THEN NUT_HI ELSE NUT_LO]

Cast(a, p, t) == [author |-> a, parent |-> p, text |-> t]

OtherFid(f) == IF f = 1 THEN 2 ELSE 1

\* The bodies a feed response for subject f is drawn from: empty, sent exactly
\* at the allowance, sent over it (with a self-reply), and received only.
FeedBatches(f) ==
    { <<>>,
      << Cast(f, NoFid, Nuts(DAILY_ALLOWANCE)) >>,
      << Cast(f, NoFid, Nuts(DAILY_ALLOWANCE)), Cast(f, f, Nuts(1)) >>,
      << Cast(OtherFid(f), f, Nuts(2)), Cast(OtherFid(f), NoFid, Nuts(3)) >> }

\* A call of fetchNutsData: the fid of its closure, where it stands, the status of
\* its response while the body is read, and the sentNuts and receivedNuts it
\* computed once it applied.
NewCycle(f) == [fid |-> f, stage |-> "fetching", ok |-> FALSE, sent |-> 0, received |-> 0]

InFlight(i) == cycles[i].stage \in {"fetching", "parsing"}

\* useState initial values; the effect has not run yet.
TrackerInit ==
    /\ fid \in Fids
    /\ mounted = TRUE
    /\ clock = 0
    /\ nutsData = [sent |-> 0, received |-> 0, failedAttempts |-> 0, lastUpdated |-> 0]
    /\ isLoading = TRUE
    /\ error = ""
    /\ effectFid = NoFid
    /\ cycles = <<>>
    /\ lastApplied = 0

\* fetchNutsData up to its first await: the request for the closure's fid is sent.
StartFetch(f) == cycles' = Append(cycles, NewCycle(f))

\* useEffect(..., [fetchNutsData]): after the first render and after a render in
\* which fid changed, the old interval is cleared, fetchNutsData is called once
\* and a new interval is set.
RunEffect ==
    /\ mounted
    /\ effectFid # fid
    /\ Len(cycles) < MaxCycles
    /\ StartFetch(fid)
    /\ effectFid' = fid
    /\ UNCHANGED <<fid, mounted, nutsData, isLoading, error, clock, lastApplied>>

\* The setInterval callback: the fetchNutsData of the effect's closure. It runs
\* for as long as the interval has not been cleared.
IntervalTick ==
    /\ effectFid # NoFid
    /\ Len(cycles) < MaxCycles
    /\ StartFetch(effectFid)
    /\ UNCHANGED <<fid, mounted, nutsData, isLoading, error, effectFid, clock, lastApplied>>

\* The subject change putting the card back into its loading state.
SubjectChange_ResetsLoading(f) ==
    /\ mounted
    /\ effectFid = fid
    /\ f # fid
    /\ fid' = f
    /\ isLoading' = TRUE
    /\ UNCHANGED <<mounted, nutsData, error, effectFid, cycles, clock, lastApplied>>

\* The parent renders the card with another fid; React keeps the instance and
\* its state. Pending effects are flushed before the next render.
SubjectChange(f) ==
    /\ mounted
    /\ effectFid = fid
    /\ f # fid
    /\ fid' = f
    /\ UNCHANGED <<mounted, nutsData, isLoading, error, effectFid, cycles, clock, lastApplied>>

\* The cleanup leaving the interval running.
Unmount_KeepsInterval ==
    /\ mounted
    /\ mounted' = FALSE
    /\ UNCHANGED <<fid, nutsData, isLoading, error, effectFid, cycles, clock, lastApplied>>

\* The effect's cleanup: clearInterval.
Unmount ==
    /\ mounted
    /\ mounted' = FALSE
    /\ effectFid' = NoFid
    /\ UNCHANGED <<fid, nutsData, isLoading, error, cycles, clock, lastApplied>>

\* await fetch(...) resolves, with any HTTP status; response.json() starts.
FetchResolve(i, ok) ==
    /\ cycles[i].stage = "fetching"
    /\ cycles' = [cycles EXCEPT ![i].stage = "parsing", ![i].ok = ok]
    /\ UNCHANGED <<fid, mounted, nutsData, isLoading, error, effectFid, clock, lastApplied>>

\* The catch block counting the failed fetch as a failed attempt.
Fail_CountsAttempt(i) ==
    IF mounted
    THEN /\ error' = ErrMsg
         /\ isLoading' = FALSE
         /\ nutsData' = [nutsData EXCEPT !.failedAttempts = @ + 1]
         /\ cycles' = [cycles EXCEPT ![i].stage = "failed", ![i].ok = FALSE]
         /\ UNCHANGED <<fid, mounted, effectFid, clock, lastApplied>>
    ELSE /\ cycles' = [cycles EXCEPT ![i].stage = "dropped", ![i].ok = FALSE]
         /\ UNCHANGED <<fid, mounted, nutsData, isLoading, error, effectFid, clock, lastApplied>>

\* The catch block calling fetchNutsData again at once.
Fail_Retries(i) ==
    IF mounted
    THEN /\ error' = ErrMsg
         /\ isLoading' = FALSE
         /\ cycles' = IF Len(cycles) < MaxCycles
                      THEN Append([cycles EXCEPT ![i].stage = "failed", ![i].ok = FALSE],
                                  NewCycle(cycles[i].fid))
                      ELSE [cycles EXCEPT ![i].stage = "failed", ![i].ok = FALSE]
         /\ UNCHANGED <<fid, mounted, nutsData, effectFid, clock, lastApplied>>
    ELSE /\ cycles' = [cycles EXCEPT ![i].stage = "dropped", ![i].ok = FALSE]
         /\ UNCHANGED <<fid, mounted, nutsData, isLoading, error, effectFid, clock, lastApplied>>

\* catch + finally. A state setter of an unmounted instance does nothing.
Fail(i) ==
    IF mounted
    THEN /\ error' = ErrMsg
         /\ isLoading' = FALSE
         /\ cycles' = [cycles EXCEPT ![i].stage = "failed", ![i].ok = FALSE]
         /\ UNCHANGED <<fid, mounted, nutsData, effectFid, clock, lastApplied>>
    ELSE /\ cycles' = [cycles EXCEPT ![i].stage = "dropped", ![i].ok = FALSE]
         /\ UNCHANGED <<fid, mounted, nutsData, isLoading, error, effectFid, clock, lastApplied>>

\* The updater with failedAttempts recomputed from this cycle alone.
Apply_ResetsCount(i, sentNuts, receivedNuts) ==
    IF mounted
    THEN /\ nutsData' = [sent |-> sentNuts,
                         received |-> receivedNuts,
                         failedAttempts |-> IF sentNuts > DAILY_ALLOWANCE THEN 1 ELSE 0,
                         lastUpdated |-> clock]
         /\ error' = ""
         /\ isLoading' = FALSE
         /\ cycles' = [cycles EXCEPT ![i].stage = "applied", ![i].ok = FALSE,
                                     ![i].sent = sentNuts, ![i].received = receivedNuts]
         /\ lastApplied' = i
         /\ UNCHANGED <<fid, mounted, effectFid, clock>>
    ELSE /\ cycles' = [cycles EXCEPT ![i].stage = "dropped", ![i].ok = FALSE]
         /\ UNCHANGED <<fid, mounted, nutsData, isLoading, error, effectFid, clock, lastApplied>>

\* The updater deciding the overage on the sent of the state it replaces.
Apply_PreviousSent(i, sentNuts, receivedNuts) ==
    IF mounted
    THEN /\ nutsData' = [sent |-> sentNuts,
                         received |-> receivedNuts,
                         failedAttempts |-> nutsData.failedAttempts
                              + (IF nutsData.sent > DAILY_ALLOWANCE THEN 1 ELSE 0),
                         lastUpdated |-> clock]
         /\ error' = ""
         /\ isLoading' = FALSE
         /\ cycles' = [cycles EXCEPT ![i].stage = "applied", ![i].ok = FALSE,
                                     ![i].sent = sentNuts, ![i].received = receivedNuts]
         /\ lastApplied' = i
         /\ UNCHANGED <<fid, mounted, effectFid, clock>>
    ELSE /\ cycles' = [cycles EXCEPT ![i].stage = "dropped", ![i].ok = FALSE]
         /\ UNCHANGED <<fid, mounted, nutsData, isLoading, error, effectFid, clock, lastApplied>>

\* The success path with the state and the error flag it writes given.
ApplyWriting(i, sentNuts, receivedNuts, data, err) ==
    IF mounted
    THEN /\ nutsData' = data
         /\ error' = err
         /\ isLoading' = FALSE
         /\ cycles' = [cycles EXCEPT ![i].stage = "applied", ![i].ok = FALSE,
                                     ![i].sent = sentNuts, ![i].received = receivedNuts]
         /\ lastApplied' = i
         /\ UNCHANGED <<fid, mounted, effectFid, clock>>
    ELSE /\ cycles' = [cycles EXCEPT ![i].stage = "dropped", ![i].ok = FALSE]
         /\ UNCHANGED <<fid, mounted, nutsData, isLoading, error, effectFid, clock, lastApplied>>

\* What the updater of the code returns.
Updated(sentNuts, receivedNuts) ==
    [sent |-> sentNuts,
     received |-> receivedNuts,
     failedAttempts |-> nutsData.failedAttempts + (IF sentNuts > DAILY_ALLOWANCE THEN 1 ELSE 0),
     lastUpdated |-> clock]

\* The success path without setError("").
Apply_KeepsError(i, sentNuts, receivedNuts) ==
    ApplyWriting(i, sentNuts, receivedNuts, Updated(sentNuts, receivedNuts), error)

\* The success path dropping the result of a call made before the one applied last.
Apply_NewestStartWins(i, sentNuts, receivedNuts) ==
    ApplyWriting(i, sentNuts, receivedNuts,
                 IF i < lastApplied THEN nutsData ELSE Updated(sentNuts, receivedNuts), "")

\* The updater adding the new counts to the previous ones.
Apply_Accumulates(i, sentNuts, receivedNuts) ==
    ApplyWriting(i, sentNuts, receivedNuts,
                 [Updated(sentNuts, receivedNuts) EXCEPT !.sent = nutsData.sent + sentNuts,
                                                         !.received = nutsData.received + receivedNuts],
                 "")

\* The updater carrying lastUpdated forward.
Apply_KeepsTimestamp(i, sentNuts, receivedNuts) ==
    ApplyWriting(i, sentNuts, receivedNuts,
                 [Updated(sentNuts, receivedNuts) EXCEPT !.lastUpdated = nutsData.lastUpdated], "")

\* setNutsData(prev => ...), setError(""), finally setIsLoading(false).
Apply(i, sentNuts, receivedNuts) ==
    IF mounted
    THEN /\ nutsData' = [sent |-> sentNuts,
                         received |-> receivedNuts,
                         failedAttempts |-> nutsData.failedAttempts
                              + (IF sentNuts > DAILY_ALLOWANCE THEN 1 ELSE 0),
                         lastUpdated |-> clock]
         /\ error' = ""
         /\ isLoading' = FALSE
         /\ cycles' = [cycles EXCEPT ![i].stage = "applied", ![i].ok = FALSE,
                                     ![i].sent = sentNuts, ![i].received = receivedNuts]
         /\ lastApplied' = i
         /\ UNCHANGED <<fid, mounted, effectFid, clock>>
    ELSE /\ cycles' = [cycles EXCEPT ![i].stage = "dropped", ![i].ok = FALSE]
         /\ UNCHANGED <<fid, mounted, nutsData, isLoading, error, effectFid, clock, lastApplied>>

\* await fetch(...) rejects: a network error.
FetchReject(i) ==
    /\ cycles[i].stage = "fetching"
    /\ Fail(i)

\* await response.json() rejects: the body is not JSON.
JsonReject(i) ==
    /\ cycles[i].stage = "parsing"
    /\ Fail(i)

\* The body is JSON with no casts array: data.casts.forEach throws a TypeError.
JsonNoCasts(i) ==
    /\ cycles[i].stage = "parsing"
    /\ Fail(i)

\* The body is JSON with a casts array: the loop runs and the state is set.
\* response.ok is never read.
JsonCasts(i, casts) ==
    /\ cycles[i].stage = "parsing"
    /\ LET n == AggregateCasts(casts, cycles[i].fid)
       IN  Apply(i, n.sent, n.received)

\* Time passes.
ClockAdvance ==
    /\ clock < MaxClock
    /\ clock' = clock + 1
    /\ UNCHANGED <<fid, mounted, nutsData, isLoading, error, effectFid, cycles, lastApplied>>

QuotaIdle ==
    /\ qNow = [day |-> 0, ms |-> 0]
    /\ qSent = 0
    /\ qOut = NoResult

AggIdle ==
    /\ aggCasts = <<>>
    /\ aggFid = 1
    /\ aggOut = NoResult

\* The refresh loop reads the allowance only.
TrackerConfig == DAILY_ALLOWANCE \in Allowances /\ RESET_HOUR_UTC = 0

Init == TrackerConfig /\ TrackerInit /\ QuotaIdle /\ AggIdle

Next ==
    \/ RunEffect /\ UNCHANGED <<config, quotaVars, aggVars>>
    \/ IntervalTick /\ UNCHANGED <<config, quotaVars, aggVars>>
    \/ \E f \in Fids : SubjectChange(f) /\ UNCHANGED <<config, quotaVars, aggVars>>
    \/ Unmount /\ UNCHANGED <<config, quotaVars, aggVars>>
    \/ \E i \in DOMAIN cycles : FetchResolve(i, TRUE) /\ UNCHANGED <<config, quotaVars, aggVars>>
    \/ \E i \in DOMAIN cycles : FetchResolve(i, FALSE) /\ UNCHANGED <<config, quotaVars, aggVars>>
    \/ \E i \in DOMAIN cycles : FetchReject(i) /\ UNCHANGED <<config, quotaVars, aggVars>>
    \/ \E i \in DOMAIN cycles : JsonReject(i) /\ UNCHANGED <<config, quotaVars, aggVars>>
    \/ \E i \in DOMAIN cycles : JsonNoCasts(i) /\ UNCHANGED <<config, quotaVars, aggVars>>
    \/ \E i \in DOMAIN cycles : \E casts \in FeedBatches(cycles[i].fid) :
            JsonCasts(i, casts) /\ UNCHANGED <<config, quotaVars, aggVars>>
    \/ ClockAdvance /\ UNCHANGED <<config, quotaVars, aggVars>>

Spec == Init /\ [][Next]_vars

\* ------------------------------------------------- the aggregation, alone
\* The texts a cast is drawn from: no marker, one, two, a marker split by another
\* character, a marker between stray halves, and another emoji of the same block.
SampleTexts ==
    { <<>>,
      <<"a">>,
      <<NUT_HI, NUT_LO>>,
      <<NUT_HI, NUT_LO, "a", NUT_HI, NUT_LO>>,
      <<NUT_HI, "a", NUT_LO>>,
      <<NUT_LO, NUT_HI, NUT_LO, NUT_HI>>,
      <<NUT_HI, OTHER_LO>> }

\* cast.author.fid is a fid; cast.parent_author?.fid is a fid, or null/undefined
\* (NoFid) when the cast is no reply.
SampleCasts ==
    { Cast(a, p, t) : a \in Fids, p \in Fids \cup {NoFid}, t \in SampleTexts }

RECURSIVE SeqsUpTo(_, _)
SeqsUpTo(S, n) ==
    IF n = 0 THEN { <<>> }
    ELSE LET shorter == SeqsUpTo(S, n - 1)
         IN  shorter \cup { Append(q, x) : q \in shorter, x \in S }

AggInputs ==
    /\ aggCasts \in SeqsUpTo(SampleCasts, MaxCasts)
    /\ aggFid \in Fids
    /\ aggOut = NoResult

\* Lines 66-78 run on data.casts.
Aggregate ==
    /\ aggOut = NoResult
    /\ aggOut' = AggregateCasts(aggCasts, aggFid)
    /\ UNCHANGED <<aggCasts, aggFid>>

AggNext == Aggregate /\ UNCHANGED <<config, trackerVars, quotaVars>>

TrackerIdle ==
    /\ fid = 1
    /\ mounted = FALSE
    /\ clock = 0
    /\ nutsData = [sent |-> 0, received |-> 0, failedAttempts |-> 0, lastUpdated |-> 0]
    /\ isLoading = TRUE
    /\ error = ""
    /\ effectFid = NoFid
    /\ cycles = <<>>
    /\ lastApplied = 0

\* The aggregation reads no configuration value.
AggConfig == DAILY_ALLOWANCE = 30 /\ RESET_HOUR_UTC = 0

AggInit == AggConfig /\ TrackerIdle /\ QuotaIdle /\ AggInputs

AggSpec == AggInit /\ [][AggNext]_vars

\* ------------------------------------------------ calculateDailyAllowance
\* A Date's time value t (ms since the epoch) is kept as the pair
\* [day |-> Day(t), ms |-> TimeWithinDay(t)] of ECMAScript's own decomposition
\* (t = day * msPerDay + ms), since t itself exceeds TLC's 32-bit integers.
MakeDate(day, time) ==
    [day |-> day + (time \div msPerDay), ms |-> time % msPerDay]

DaysInYear(y) ==
    IF y % 4 # 0 THEN 365
    ELSE IF y % 100 # 0 THEN 366
    ELSE IF y % 400 # 0 THEN 365
    ELSE 366

DayFromYear(y) ==
    365 * (y - 1970) + ((y - 1969) \div 4) - ((y - 1901) \div 100) + ((y - 1601) \div 400)

\* YearFromTime: the year y with DayFromYear(y) <= d < DayFromYear(y + 1), sought
\* among the years that 365- and 366-day years allow for day d.
YearFromDay(d) ==
    CHOOSE y \in (1969 + (d \div 366))..(1971 + (d \div 365)) :
        DayFromYear(y) <= d /\ d < DayFromYear(y + 1)

Leap(y) == IF DaysInYear(y) = 366 THEN 1 ELSE 0

\* The day within the year on which month m (0..11) starts; m = 12 is the year's end.
MonthStart(m, leap) ==
    CASE m = 0 -> 0
      [] m = 1 -> 31
      [] m = 2 -> 59 + leap
      [] m = 3 -> 90 + leap
      [] m = 4 -> 120 + leap
      [] m = 5 -> 151 + leap
      [] m = 6 -> 181 + leap
      [] m = 7 -> 212 + leap
      [] m = 8 -> 243 + leap
      [] m = 9 -> 273 + leap
      [] m = 10 -> 304 + leap
      [] m = 11 -> 334 + leap
      [] OTHER -> 365 + leap

\* MonthFromTime, given the year of the day.
MonthInYear(d, y) ==
    LET within == d - DayFromYear(y)
        leap == Leap(y)
    IN  CHOOSE m \in 0..11 :
            MonthStart(m, leap) <= within /\ within < MonthStart(m + 1, leap)

MonthFromDay(d) == MonthInYear(d, YearFromDay(d))

\* DateFromTime: the day of the month, 1..31.
DateFromDay(d) ==
    LET y == YearFromDay(d)
    IN  d - DayFromYear(y) - MonthStart(MonthInYear(d, y), Leap(y)) + 1

\* MakeDay(year, month, date) for a month in 0..11: the date may be 0 or less.
MakeDay(year, month, date) ==
    DayFromYear(year) + MonthStart(month, Leap(year)) + date - 1

getUTCHours(t) == (t.ms \div msPerHour) % 24

getUTCDate(t) == DateFromDay(t.day)

\* Date.prototype.setUTCDate: the date replaces the day of the month, the year,
\* the month and the time within the day stay.
setUTCDate(t, date) ==
    LET y == YearFromDay(t.day)
    IN  MakeDate(MakeDay(y, MonthInYear(t.day, y), date), t.ms)

\* Date.prototype.setUTCHours(hour, min, sec, ms) with all four given.
setUTCHours(t, hour, min, sec, ms) ==
    MakeDate(t.day, hour * msPerHour + min * 60000 + sec * 1000 + ms)

\* The calculation going back a day at the reset hour itself.
calculateDailyAllowance_AtHour(now, sent) ==
    LET copy == now
        moved == IF getUTCHours(now) <= RESET_HOUR_UTC
                 THEN setUTCDate(copy, getUTCDate(now) - 1)
                 ELSE copy
        lastReset == setUTCHours(moved, RESET_HOUR_UTC, 0, 0, 0)
    IN  [remaining |-> DAILY_ALLOWANCE - sent,
         nextReset |-> MakeDate(lastReset.day, lastReset.ms + 86400000),
         lastReset |-> lastReset]

\* lastReset is returned beside the two values of the code, for the claims about it.
calculateDailyAllowance(now, sent) ==
    LET copy == now
        moved == IF getUTCHours(now) < RESET_HOUR_UTC
                 THEN setUTCDate(copy, getUTCDate(now) - 1)
                 ELSE copy
        lastReset == setUTCHours(moved, RESET_HOUR_UTC, 0, 0, 0)
    IN  [remaining |-> DAILY_ALLOWANCE - sent,
         nextReset |-> MakeDate(lastReset.day, lastReset.ms + 86400000),
         lastReset |-> lastReset]

\* The card showing the value as calculated.
DailyRemaining_Unclamped(remaining) == remaining

\* "Daily Remaining": {remaining > 0 ? remaining : 0}
DailyRemaining(remaining) == IF remaining > 0 THEN remaining ELSE 0

\* 1970-01-01, 2024-03-01 (after a leap day), 2024-12-31, 2025-01-01,
\* 2025-02-10 and 2025-03-01, as days since the epoch.
SampleDays == {0, 19783, 20088, 20089, 20129, 20148}

\* The first and the last millisecond of every hour.
SampleMs == { h * msPerHour + o : h \in 0..23, o \in {0, msPerHour - 1} }

\* nutsData.sent: nothing sent, within, at and over the allowance.
SampleSent(allowance) == {0, allowance - 1, allowance, allowance + 1, allowance + 5}

QuotaConfig == DAILY_ALLOWANCE \in Allowances /\ RESET_HOUR_UTC \in ResetHours

QuotaInputs ==
    /\ qNow \in [day : SampleDays, ms : SampleMs]
    /\ qSent \in SampleSent(DAILY_ALLOWANCE)
    /\ qOut = NoResult

\* A render: line 51 and the card's "Daily Remaining".
Render ==
    /\ qOut = NoResult
    /\ LET r == calculateDailyAllowance(qNow, qSent)
       IN  qOut' = [remaining |-> r.remaining,
                    shown |-> DailyRemaining(r.remaining),
                    nextReset |-> r.nextReset,
                    lastReset |-> r.lastReset]
    /\ UNCHANGED <<qNow, qSent>>

QuotaNext == Render /\ UNCHANGED <<config, trackerVars, aggVars>>

QuotaInit == QuotaConfig /\ TrackerIdle /\ QuotaInputs /\ AggIdle

QuotaSpec == QuotaInit /\ [][QuotaNext]_vars

\* ================================================================ claims
Completed(i) == InFlight(i) /\ cycles'[i].stage \in {"applied", "failed", "dropped"}

\* C1 as stated: a refresh cycle whose fetch fails leaves sent, received,
\* failedAttempts and lastUpdated as they were and changes no flag but the error
\* indicator: the loading flag keeps its value.
C1_FailedCycleSetsOnlyError ==
    [][\A i \in DOMAIN cycles :
          (InFlight(i) /\ cycles'[i].stage = "failed")
              => /\ nutsData' = nutsData
                 /\ error' = ErrMsg
                 /\ isLoading' = isLoading]_vars

\* C1 amended: a refresh cycle whose fetch fails (in a mounted card) leaves sent,
\* received, failedAttempts and lastUpdated as they were, sets the error
\* indicator and clears the loading flag; it changes nothing else.
C1_FailedCycleKeepsState ==
    [][\A i \in DOMAIN cycles :
          (InFlight(i) /\ cycles'[i].stage = "failed")
              => /\ nutsData' = nutsData
                 /\ error' = ErrMsg
                 /\ isLoading' = FALSE
                 /\ UNCHANGED <<fid, mounted, effectFid, clock>>]_vars

\* A cycle failed after an over-allowance cycle had been applied at time 1.
C1_Witness ==
    /\ \E i \in DOMAIN cycles : cycles[i].stage = "failed"
    /\ error = ErrMsg
    /\ ~isLoading
    /\ nutsData.sent > DAILY_ALLOWANCE
    /\ nutsData.failedAttempts = 1
    /\ nutsData.lastUpdated = 1

\* C2: at most one fetch is in flight per subject at any time.
C2_AtMostOneInFlight ==
    \A f \in Fids :
        Cardinality({i \in DOMAIN cycles : InFlight(i) /\ cycles[i].fid = f}) <= 1

\* C3: once the loop that started a cycle has been cancelled (the effect now
\* belongs to another subject, or the card is unmounted), the completion of that
\* cycle does not change sent, received, failedAttempts or lastUpdated.
C3_NoMutationAfterCancel ==
    [][\A i \in DOMAIN cycles :
          (Completed(i) /\ cycles[i].fid # effectFid) => nutsData' = nutsData]_vars

\* C4: when the subject changes, the state the card holds for the new subject
\* has sent = 0, received = 0 and failedAttempts = 0.
C4_SubjectChangeResets ==
    [][fid' # fid =>
          /\ nutsData'.sent = 0
          /\ nutsData'.received = 0
          /\ nutsData'.failedAttempts = 0]_vars

\* C5: failedAttempts never decreases from one state to the next, and is never
\* negative.
C5_FailedAttemptsMonotone ==
    [][/\ nutsData'.failedAttempts >= nutsData.failedAttempts
       /\ nutsData.failedAttempts >= 0
       /\ nutsData'.failedAttempts >= 0]_vars

\* An over-allowance cycle was applied and a later cycle within the allowance
\* replaced its counts: the count of failed attempts stayed.
C5_Witness ==
    /\ nutsData.failedAttempts = 1
    /\ nutsData.sent = 0
    /\ Cardinality({i \in DOMAIN cycles : cycles[i].stage = "applied"}) = 2

\* C6: failedAttempts is the number of applied cycles whose own sent was
\* strictly greater than the daily allowance (each adds exactly 1, every other
\* applied cycle adds 0, whatever the order in which overlapping cycles complete).
C6_FailedAttemptsCountsOverages ==
    nutsData.failedAttempts =
        Cardinality({i \in DOMAIN cycles :
                        cycles[i].stage = "applied" /\ cycles[i].sent > DAILY_ALLOWANCE})

\* Two cycles overlapped; the first to start was applied last with sent at the
\* allowance exactly, the other with sent over it: one failed attempt.
C6_Witness ==
    /\ Len(cycles) = 2
    /\ cycles[1].stage = "applied" /\ cycles[1].sent = DAILY_ALLOWANCE
    /\ cycles[2].stage = "applied" /\ cycles[2].sent = DAILY_ALLOWANCE + 1
    /\ nutsData.sent = DAILY_ALLOWANCE
    /\ nutsData.failedAttempts = 1

Before(a, b) == a.day < b.day \/ (a.day = b.day /\ a.ms < b.ms)

\* C8: the reset boundary is RESET_HOUR_UTC:00:00.000 on the previous UTC day when
\* now is before that hour and on now's UTC day otherwise, nextReset is the same
\* time of day one day later, and boundary <= now < nextReset.
C8_ResetBoundary ==
    qOut # NoResult =>
        LET b == qOut.lastReset
            n == qOut.nextReset
        IN  /\ b.ms = RESET_HOUR_UTC * msPerHour
            /\ b.day = IF qNow.ms < RESET_HOUR_UTC * msPerHour THEN qNow.day - 1 ELSE qNow.day
            /\ n.day = b.day + 1 /\ n.ms = b.ms
            /\ ~Before(qNow, b)
            /\ Before(qNow, n)

\* 2025-01-01 before the reset hour: the boundary is on 2024-12-31.
C8_Witness ==
    /\ qOut # NoResult
    /\ qNow.day = 20089
    /\ qNow.ms = 5 * msPerHour - 1
    /\ RESET_HOUR_UTC = 5
    /\ qOut.lastReset = [day |-> 20088, ms |-> 5 * msPerHour]
    /\ qOut.nextReset = [day |-> 20089, ms |-> 5 * msPerHour]

\* The occurrences of the marker in a text, counted by position.
Occurrences(text) ==
    Cardinality({k \in 1..(Len(text) - 1) : text[k] = NUT_HI /\ text[k + 1] = NUT_LO})

RECURSIVE SumOccurrences(_, _)
SumOccurrences(casts, S) ==
    IF S = {} THEN 0
    ELSE LET k == CHOOSE x \in S : TRUE
         IN  Occurrences(casts[k].text) + SumOccurrences(casts, S \ {k})

\* C9: sent is the sum of marker occurrences over exactly the casts whose author
\* is the subject, received the sum over exactly the casts whose parent author
\* is the subject, each computed independently of the other.
C9_AggregationSums ==
    aggOut # NoResult =>
        /\ aggOut.sent = SumOccurrences(aggCasts,
               {k \in DOMAIN aggCasts : aggCasts[k].author = aggFid})
        /\ aggOut.received = SumOccurrences(aggCasts,
               {k \in DOMAIN aggCasts : aggCasts[k].parent = aggFid})

\* A self-reply with two markers beside a cast of somebody else: 2 sent, 2 received.
C9_Witness ==
    /\ aggOut = [sent |-> 2, received |-> 2]
    /\ Len(aggCasts) = 2
    /\ aggCasts[1] = Cast(aggFid, aggFid, <<NUT_HI, NUT_LO, "a", NUT_HI, NUT_LO>>)
    /\ aggCasts[2].author # aggFid /\ aggCasts[2].parent = NoFid
    /\ MatchCount(aggCasts[2].text) = 1

\* C10: a cycle whose response is a non-success response ends with the error flag
\* set and sent, received, failedAttempts and lastUpdated unchanged, whatever the
\* body holds.
C10_NonSuccessIsFailure ==
    [][\A i \in DOMAIN cycles :
          (cycles[i].stage = "parsing" /\ ~cycles[i].ok
             /\ cycles'[i].stage \in {"applied", "failed"})
              => /\ error' = ErrMsg
                 /\ nutsData' = nutsData]_vars

Applied(i) == InFlight(i) /\ cycles'[i].stage = "applied"

Newest == cycles'[Len(cycles')]

\* C11: whenever a refresh cycle completes successfully, the error flag is
\* cleared and sent, received and lastUpdated are replaced by that cycle's
\* values, whatever failures came before.
C11_SuccessHeals ==
    [][\A i \in DOMAIN cycles :
          Applied(i)
              => /\ error' = ""
                 /\ nutsData'.sent = cycles'[i].sent
                 /\ nutsData'.received = cycles'[i].received
                 /\ nutsData'.lastUpdated = clock]_vars

\* The first cycle failed, time passed, and the second one was applied: no
\* error is left and the counts are the second cycle's.
C11_Witness ==
    /\ Len(cycles) = 2
    /\ cycles[1].stage = "failed"
    /\ cycles[2].stage = "applied" /\ cycles[2].received = 2
    /\ error = ""
    /\ nutsData.received = 2
    /\ nutsData.lastUpdated = 1

\* C12: an activation starts exactly one fetch at once; every other fetch is
\* started by a tick of the live interval, one per tick; a cycle that completes,
\* failed or not, starts no fetch and leaves the interval as it is.
C12_OneFetchPerActivationAndTick ==
    [][/\ (effectFid' # effectFid /\ effectFid' # NoFid)
            => /\ Len(cycles') = Len(cycles) + 1
               /\ Newest = NewCycle(effectFid')
       /\ Len(cycles') # Len(cycles)
            => /\ Len(cycles') = Len(cycles) + 1
               /\ Newest = NewCycle(effectFid')
               /\ \A i \in DOMAIN cycles : cycles'[i] = cycles[i]
       /\ (\E i \in DOMAIN cycles : Completed(i))
            => /\ Len(cycles') = Len(cycles)
               /\ effectFid' = effectFid]_vars

\* The first cycle failed and the interval, still live, started the next one.
C12_Witness ==
    /\ Len(cycles) = 2
    /\ cycles[1].stage = "failed"
    /\ cycles[2].stage = "fetching" /\ cycles[2].fid = cycles[1].fid
    /\ effectFid = cycles[1].fid
    /\ error = ErrMsg

\* C13: once the effect of a subject has been cleaned up, every fetch that
\* starts is for the subject of the effect that replaced it, which is the fid of
\* the render; once the card is unmounted no fetch starts.
C13_NoFetchForCancelledLoop ==
    [][Len(cycles') > Len(cycles)
          => /\ mounted
             /\ Newest.fid = effectFid'
             /\ (effectFid = fid => Newest.fid = fid)]_vars

\* The subject changed with a fetch of the old subject pending; the new effect
\* started a fetch for the new subject.
C13_Witness ==
    /\ Len(cycles) = 2
    /\ cycles[1].fid # cycles[2].fid
    /\ InFlight(1) /\ InFlight(2)
    /\ effectFid = fid /\ fid = cycles[2].fid

\* C14: sent and received are always, together, the counts of the successful
\* cycle that completed last (zero before any), whatever the order in which
\* overlapping cycles were started.
C14_LastCompletionWins ==
    /\ lastApplied = 0 => (nutsData.sent = 0 /\ nutsData.received = 0)
    /\ lastApplied # 0 =>
          /\ lastApplied \in DOMAIN cycles
          /\ cycles[lastApplied].stage = "applied"
          /\ nutsData.sent = cycles[lastApplied].sent
          /\ nutsData.received = cycles[lastApplied].received

\* Two overlapping cycles completed in the reverse of their start order: the
\* state holds the counts of the first started, which completed last.
C14_Witness ==
    /\ Len(cycles) = 2
    /\ cycles[1].stage = "applied" /\ cycles[2].stage = "applied"
    /\ cycles[1].fid = cycles[2].fid
    /\ lastApplied = 1
    /\ cycles[1].received = 2 /\ cycles[2].received = 1
    /\ nutsData.sent = 0 /\ nutsData.received = 2

BatchCounts(f) ==
    { AggregateCasts(b, f) : b \in FeedBatches(f) }

\* C15: after a successful cycle sent and received are the counts of one batch
\* of that cycle's subject, whatever the state held before: they are replaced,
\* not added to.
C15_CountsReplaced ==
    [][\A i \in DOMAIN cycles :
          Applied(i) =>
              [sent |-> nutsData'.sent, received |-> nutsData'.received]
                  \in BatchCounts(cycles[i].fid)]_vars

\* Two successful cycles over the same batch (sent one over the allowance, one
\* received): the counts are those of the batch, not twice them.
C15_Witness ==
    /\ Len(cycles) = 2
    /\ cycles[1].stage = "applied" /\ cycles[2].stage = "applied"
    /\ cycles[1].fid = cycles[2].fid
    /\ cycles[1].sent = DAILY_ALLOWANCE + 1 /\ cycles[2].sent = DAILY_ALLOWANCE + 1
    /\ nutsData.sent = DAILY_ALLOWANCE + 1
    /\ nutsData.received = 1
    /\ nutsData.failedAttempts = 2

\* C16: lastUpdated changes only when a cycle is applied, is then the value of
\* the clock, and never decreases.
C16_LastUpdatedIsLastSuccess ==
    [][/\ nutsData'.lastUpdated # nutsData.lastUpdated
            => \E i \in DOMAIN cycles : Applied(i)
       /\ (\E i \in DOMAIN cycles : Applied(i)) => nutsData'.lastUpdated = clock
       /\ nutsData'.lastUpdated >= nutsData.lastUpdated
       /\ nutsData'.lastUpdated <= clock']_vars

\* A cycle was applied at time 1 and a later one failed: lastUpdated is still 1.
C16_Witness ==
    /\ Len(cycles) = 2
    /\ cycles[1].stage = "applied"
    /\ cycles[2].stage = "failed"
    /\ error = ErrMsg
    /\ nutsData.lastUpdated = 1

\* C17: the loading flag is true exactly as long as no cycle has completed in
\* the mounted card; new cycles and subject changes never set it again.
C17_LoadingUntilFirstCompletion ==
    isLoading <=> \A i \in DOMAIN cycles : cycles[i].stage \notin {"applied", "failed"}

\* The first cycle failed, the subject changed and a fetch for the new subject
\* is pending: the card is not loading.
C17_Witness ==
    /\ Len(cycles) = 2
    /\ cycles[1].stage = "failed"
    /\ cycles[2].stage = "fetching" /\ cycles[2].fid # cycles[1].fid
    /\ fid = cycles[2].fid
    /\ ~isLoading

====
